---- MODULE Spec2Model ----
(***************************************************************************)
(* A model of gemini_handler.py: the recursive schema translator           *)
(* _build_client_api_schema and the request orchestrator call_gemini_api.  *)
(*                                                                         *)
(* Python values are represented as follows.                               *)
(*   - An optional value (None or a value) is a sequence of length 0 or 1: *)
(*     None is <<>>, a present value x is <<x>>.                           *)
(*   - A string on which the code computes (str.lower, json.loads) is a    *)
(*     sequence of one-character strings; labels the code only copies      *)
(*     (property names, descriptions, roles, keys) are TLA+ strings.       *)
(*   - A schema dictionary is a record of the five keys the translator     *)
(*     reads, each optional; the empty dictionary {} has all five absent.  *)
(*   - An exception is a record [type, msg], msg being the pair            *)
(*     <<fixed text, interpolated string>>.                                *)
(***************************************************************************)
EXTENDS Integers, Sequences, FiniteSets, TLC

VARIABLES
    api_key, environ, message_history, user_message, output_schema,
    pc, key_to_use, client, contents, response_schema, response_mime_type,
    calls, api_reply, response_text, caught, log, outcome,
    schema_dict, build_result

args == <<api_key, environ, message_history, user_message, output_schema>>
locals == <<key_to_use, client, contents, response_schema, response_mime_type,
            response_text, caught>>
world == <<calls, api_reply, log>>
translator == <<schema_dict, build_result>>
vars == <<args, pc, locals, world, outcome, translator>>

----------------------------------------------------------------------------
(* Optional values *)

None == <<>>
Some(x) == <<x>>
IsNone(o) == Len(o) = 0
IsSome(o) == Len(o) = 1
Val(o) == o[1]

----------------------------------------------------------------------------
(* Bounds of the model *)

\* the largest number of nodes of a generated schema tree
MaxNodes == 3
\* the largest number of prior turns in message_history
MaxHistory == 2

----------------------------------------------------------------------------
(* str.lower *)

LowerChar(c) ==
    CASE c = "A" -> "a" [] c = "B" -> "b" [] c = "C" -> "c" [] c = "D" -> "d"
      [] c = "E" -> "e" [] c = "F" -> "f" [] c = "G" -> "g" [] c = "H" -> "h"
      [] c = "I" -> "i" [] c = "J" -> "j" [] c = "K" -> "k" [] c = "L" -> "l"
      [] c = "M" -> "m" [] c = "N" -> "n" [] c = "O" -> "o" [] c = "P" -> "p"
      [] c = "Q" -> "q" [] c = "R" -> "r" [] c = "S" -> "s" [] c = "T" -> "t"
      [] c = "U" -> "u" [] c = "V" -> "v" [] c = "W" -> "w" [] c = "X" -> "x"
      [] c = "Y" -> "y" [] c = "Z" -> "z" [] OTHER -> c

lower(s) == [i \in 1..Len(s) |-> LowerChar(s[i])]

----------------------------------------------------------------------------
(* Schema dictionaries and the translator *)

Dict(t, d, p, i, r) ==
    [type |-> t, description |-> d, properties |-> p, items |-> i, required |-> r]

EmptyDict == Dict(None, None, None, None, None)

\* Python truthiness of a dictionary: it has at least one key
DictTruthy(d) == d # EmptyDict

str_string  == <<"s", "t", "r", "i", "n", "g">>
str_number  == <<"n", "u", "m", "b", "e", "r">>
str_integer == <<"i", "n", "t", "e", "g", "e", "r">>
str_boolean == <<"b", "o", "o", "l", "e", "a", "n">>
str_array   == <<"a", "r", "r", "a", "y">>
str_object  == <<"o", "b", "j", "e", "c", "t">>

type_map ==
    (str_string :> "Type.STRING") @@ (str_number :> "Type.NUMBER") @@
    (str_integer :> "Type.INTEGER") @@ (str_boolean :> "Type.BOOLEAN") @@
    (str_array :> "Type.ARRAY") @@ (str_object :> "Type.OBJECT")

\* a lookup with a default kind: type_map.get(s, types.Type.STRING)
type_map_get_with_default(s) ==
    IF s \in DOMAIN type_map THEN Some(type_map[s]) ELSE Some("Type.STRING")

\* type_map.get(s): None for a key that is not in the map
type_map_get(s) == IF s \in DOMAIN type_map THEN Some(type_map[s]) ELSE None

\* the lookup key taken without .lower()
schema_type_str_as_written(d) == IF IsSome(d.type) THEN Val(d.type) ELSE str_object

\* schema_dict.get("type", "object").lower()
schema_type_str(d) == lower(IF IsSome(d.type) THEN Val(d.type) ELSE str_object)

\* ValueError(f"Unsupported schema type: {schema_type_str}")
UnsupportedSchemaType(s) ==
    [type |-> "ValueError", msg |-> <<"Unsupported schema type: ", s>>]

\* types.Schema(type=, description=, properties=, items=, required=)
Schema(t, d, p, i, r) ==
    [type |-> t, description |-> d, properties |-> p, items |-> i, required |-> r]

\* the outcome of one call of the translator: the Schema it returns or the
\* exception it raises, and the dictionaries it examined, in order
Returned(s, seen) == [ok |-> TRUE, schema |-> Some(s), exc |-> None, visited |-> seen]
Raised(e, seen) == [ok |-> FALSE, schema |-> None, exc |-> Some(e), visited |-> seen]

\* `{...} or None`: an empty dictionary of translated properties becomes None
OrNone(props) == IF props = <<>> THEN None ELSE Some(props)

RECURSIVE _build_client_api_schema(_)
RECURSIVE build_properties(_)

RECURSIVE build_properties_last_first(_)

\* the children translated from the last property to the first
build_properties_last_first(kvs) ==
    IF kvs = <<>> THEN [ok |-> TRUE, props |-> <<>>, exc |-> None, visited |-> <<>>]
    ELSE LET rest == build_properties_last_first(Tail(kvs))
         IN  IF ~rest.ok THEN rest
             ELSE LET r == _build_client_api_schema(Head(kvs)[2])
                  IN  [ok |-> r.ok,
                       props |-> IF r.ok
                                 THEN <<<<Head(kvs)[1], Val(r.schema)>>>> \o rest.props
                                 ELSE <<>>,
                       exc |-> r.exc,
                       visited |-> rest.visited \o r.visited]

\* the dictionary comprehension over schema_dict.get("properties", {}).items():
\* the children are translated in insertion order and the first exception
\* ends the comprehension
build_properties(kvs) ==
    IF kvs = <<>> THEN [ok |-> TRUE, props |-> <<>>, exc |-> None, visited |-> <<>>]
    ELSE LET k == Head(kvs)[1]
             r == _build_client_api_schema(Head(kvs)[2])
         IN  IF ~r.ok
             THEN [ok |-> FALSE, props |-> <<>>, exc |-> r.exc, visited |-> r.visited]
             ELSE LET rest == build_properties(Tail(kvs))
                  IN  [ok |-> rest.ok,
                       props |-> IF rest.ok
                                 THEN <<<<k, Val(r.schema)>>>> \o rest.props
                                 ELSE <<>>,
                       exc |-> rest.exc,
                       visited |-> r.visited \o rest.visited]

_build_client_api_schema(d) ==
    LET s == schema_type_str(d)
        gemini_type == type_map_get(s)
    IN  IF IsNone(gemini_type)
        THEN Raised(UnsupportedSchemaType(s), <<d>>)
        ELSE LET P == build_properties(IF IsSome(d.properties)
                                       THEN Val(d.properties) ELSE <<>>)
             IN  IF ~P.ok
                 THEN Raised(Val(P.exc), <<d>> \o P.visited)
                 ELSE IF IsNone(d.items)
                      THEN Returned(Schema(Val(gemini_type), d.description,
                                           OrNone(P.props), None, d.required),
                                    <<d>> \o P.visited)
                      ELSE LET I == _build_client_api_schema(Val(d.items))
                           IN  IF ~I.ok
                               THEN Raised(Val(I.exc), <<d>> \o P.visited \o I.visited)
                               ELSE Returned(Schema(Val(gemini_type), d.description,
                                                    OrNone(P.props), I.schema,
                                                    d.required),
                                             <<d>> \o P.visited \o I.visited)

----------------------------------------------------------------------------
(* json.loads, on the JSON subset the model's reply texts are written in:  *)
(* objects, arrays, strings without escapes, non-negative integers, the    *)
(* three literals, and spaces between tokens.                              *)

JStr(s) == [t |-> "str", v |-> s]
JNum(n) == [t |-> "num", v |-> n]
JLit(name) == [t |-> "lit", v |-> name]
JArr(xs) == [t |-> "arr", v |-> xs]
JObj(kvs) == [t |-> "obj", v |-> kvs]

Digits == {"0", "1", "2", "3", "4", "5", "6", "7", "8", "9"}

DigitVal(c) ==
    CASE c = "0" -> 0 [] c = "1" -> 1 [] c = "2" -> 2 [] c = "3" -> 3
      [] c = "4" -> 4 [] c = "5" -> 5 [] c = "6" -> 6 [] c = "7" -> 7
      [] c = "8" -> 8 [] c = "9" -> 9

ParseOk(v, i) == [ok |-> TRUE, val |-> Some(v), next |-> i]
ParseFail == [ok |-> FALSE, val |-> None, next |-> 0]

RECURSIVE SkipWs(_, _)
SkipWs(s, i) == IF i <= Len(s) /\ s[i] = " " THEN SkipWs(s, i + 1) ELSE i

\* the index of the quote that closes a string whose body starts at i, or 0
RECURSIVE ScanString(_, _)
ScanString(s, i) ==
    IF i > Len(s) THEN 0 ELSE IF s[i] = "\"" THEN i ELSE ScanString(s, i + 1)

\* the first index at or after i that holds no digit
RECURSIVE ScanDigits(_, _)
ScanDigits(s, i) ==
    IF i <= Len(s) /\ s[i] \in Digits THEN ScanDigits(s, i + 1) ELSE i

\* the number written by the digits s[i..j]
RECURSIVE DigitsValue(_, _, _)
DigitsValue(s, i, j) ==
    IF j < i THEN 0 ELSE 10 * DigitsValue(s, i, j - 1) + DigitVal(s[j])

HasPrefixAt(s, i, word) ==
    /\ i + Len(word) - 1 <= Len(s)
    /\ SubSeq(s, i, i + Len(word) - 1) = word

\* a Python dict assignment: a repeated key keeps its place and takes the new value
RECURSIVE DictSet(_, _, _)
DictSet(kvs, k, v) ==
    IF kvs = <<>> THEN <<<<k, v>>>>
    ELSE IF Head(kvs)[1] = k THEN <<<<k, v>>>> \o Tail(kvs)
    ELSE <<Head(kvs)>> \o DictSet(Tail(kvs), k, v)

RECURSIVE ParseValue(_, _)
RECURSIVE ParseElements(_, _, _)
RECURSIVE ParseMembers(_, _, _)

ParseValue(s, i0) ==
    LET i == SkipWs(s, i0)
    IN  IF i > Len(s) THEN ParseFail
        ELSE IF s[i] = "\""
        THEN LET j == ScanString(s, i + 1)
             IN  IF j = 0 THEN ParseFail
                 ELSE ParseOk(JStr(SubSeq(s, i + 1, j - 1)), j + 1)
        ELSE IF s[i] = "0" THEN ParseOk(JNum(0), i + 1)
        ELSE IF s[i] \in Digits
        THEN LET j == ScanDigits(s, i)
             IN  ParseOk(JNum(DigitsValue(s, i, j - 1)), j)
        ELSE IF s[i] = "["
        THEN LET k == SkipWs(s, i + 1)
             IN  IF k <= Len(s) /\ s[k] = "]" THEN ParseOk(JArr(<<>>), k + 1)
                 ELSE ParseElements(s, i + 1, <<>>)
        ELSE IF s[i] = "{"
        THEN LET k == SkipWs(s, i + 1)
             IN  IF k <= Len(s) /\ s[k] = "}" THEN ParseOk(JObj(<<>>), k + 1)
                 ELSE ParseMembers(s, i + 1, <<>>)
        ELSE IF HasPrefixAt(s, i, <<"t", "r", "u", "e">>)
        THEN ParseOk(JLit("true"), i + 4)
        ELSE IF HasPrefixAt(s, i, <<"f", "a", "l", "s", "e">>)
        THEN ParseOk(JLit("false"), i + 5)
        ELSE IF HasPrefixAt(s, i, <<"n", "u", "l", "l">>)
        THEN ParseOk(JLit("null"), i + 4)
        ELSE ParseFail

ParseElements(s, i, acc) ==
    LET r == ParseValue(s, i)
    IN  IF ~r.ok THEN ParseFail
        ELSE LET k == SkipWs(s, r.next)
                 acc2 == Append(acc, Val(r.val))
             IN  IF k > Len(s) THEN ParseFail
                 ELSE IF s[k] = "," THEN ParseElements(s, k + 1, acc2)
                 ELSE IF s[k] = "]" THEN ParseOk(JArr(acc2), k + 1)
                 ELSE ParseFail

ParseMembers(s, i0, acc) ==
    LET i == SkipWs(s, i0)
    IN  IF i > Len(s) \/ s[i] # "\"" THEN ParseFail
        ELSE LET j == ScanString(s, i + 1)
             IN  IF j = 0 THEN ParseFail
                 ELSE LET c == SkipWs(s, j + 1)
                      IN  IF c > Len(s) \/ s[c] # ":" THEN ParseFail
                          ELSE LET r == ParseValue(s, c + 1)
                               IN  IF ~r.ok THEN ParseFail
                                   ELSE LET k == SkipWs(s, r.next)
                                            acc2 == DictSet(acc, SubSeq(s, i + 1, j - 1),
                                                            Val(r.val))
                                        IN  IF k > Len(s) THEN ParseFail
                                            ELSE IF s[k] = ","
                                            THEN ParseMembers(s, k + 1, acc2)
                                            ELSE IF s[k] = "}"
                                            THEN ParseOk(JObj(acc2), k + 1)
                                            ELSE ParseFail

JSONDecodeError == [type |-> "JSONDecodeError", msg |-> <<"Expecting value", <<>>>>]

\* json.loads(text): the parsed value, or JSONDecodeError when the text is no
\* JSON document (trailing non-space text included)
json_loads(s) ==
    LET r == ParseValue(s, 1)
    IN  IF r.ok /\ SkipWs(s, r.next) > Len(s)
        THEN [ok |-> TRUE, value |-> r.val, exc |-> None]
        ELSE [ok |-> FALSE, value |-> None, exc |-> Some(JSONDecodeError)]

----------------------------------------------------------------------------
(* The inputs the model draws from *)

str_STRING   == <<"S", "T", "R", "I", "N", "G">>
str_Array    == <<"A", "r", "r", "a", "y">>
str_null     == <<"n", "u", "l", "l">>
str_Currency == <<"C", "u", "r", "r", "e", "n", "c", "y">>

\* the values of "type" at the nodes of a generated tree: absent, a
\* recognized name in mixed case, and two unrecognized names
TreeTypes == {None, Some(str_Array), Some(str_null), Some(str_Currency)}

\* the values of "type" of a single-node schema
FlatTypes ==
    TreeTypes \cup
    {Some(str_string), Some(str_number), Some(str_integer), Some(str_boolean),
     Some(str_array), Some(str_object), Some(str_STRING), Some(<<>>)}

PropertyNames == {"a", "b"}

RECURSIVE TreesOfSize(_)
RECURSIVE PropListsOfSize(_, _)

\* the property lists with m nodes in all, under pairwise distinct names
PropListsOfSize(m, names) ==
    IF m = 0 THEN {<<>>}
    ELSE UNION { UNION { { <<<<k, v>>>> \o rest :
                             v \in TreesOfSize(j),
                             rest \in PropListsOfSize(m - j, names \ {k}) } :
                         j \in 1..m } :
                 k \in names }

\* the schema dictionaries with exactly n nodes
TreesOfSize(n) ==
    UNION { { Dict(t, None, p, i, None) :
                t \in TreeTypes,
                p \in (IF m = 0 THEN {None}
                       ELSE {Some(l) : l \in PropListsOfSize(m, PropertyNames)}),
                i \in (IF n - 1 - m = 0 THEN {None}
                       ELSE {Some(x) : x \in TreesOfSize(n - 1 - m)}) } :
            m \in 0..(n - 1) }

\* single nodes, over every type name and every optional key
FlatDicts ==
    { Dict(t, d, p, None, r) :
        t \in FlatTypes,
        d \in {None, Some("Date in YYYY-MM-DD format")},
        p \in {None, Some(<<>>)},
        r \in {None, Some(<<"name">>)} }

\* the schema of the first end-to-end scenario
NameSchema ==
    Dict(Some(str_object), None,
         Some(<<<<"name", Dict(Some(str_string), None, None, None, None)>>>>),
         None, Some(<<"name">>))

Leaf(t) == Dict(Some(t), None, None, None, None)

\* the schema of the example at the end of the file
InvoiceSchema ==
    Dict(Some(str_object), None,
         Some(<<<<"invoice_id", Leaf(str_string)>>,
                <<"customer_name", Leaf(str_string)>>,
                <<"due_date", Dict(Some(str_string), Some("Date in YYYY-MM-DD format"),
                                   None, None, None)>>,
                <<"total_amount", Leaf(str_number)>>,
                <<"line_item", Leaf(str_string)>>>>),
         None,
         Some(<<"invoice_id", "customer_name", "due_date", "total_amount">>))

\* an array of objects, every type name in capitals or absent
NestedSchema ==
    Dict(Some(str_Array), Some("rows"), None,
         Some(Dict(None, None,
                   Some(<<<<"b", Leaf(str_STRING)>>,
                          <<"a", Dict(Some(str_Array), None, None,
                                      Some(Leaf(str_integer)), None)>>>>),
                   None, Some(<<"b">>))),
         None)

\* unrecognized types under a nested property, at a later property and at items
DeepBadSchema ==
    Dict(None, None,
         Some(<<<<"a", Dict(Some(str_object), None,
                            Some(<<<<"x", Leaf(str_Currency)>>>>), None, None)>>,
                <<"b", Leaf(str_null)>>>>),
         Some(Leaf(str_null)), None)

SchemaDicts ==
    FlatDicts \cup {NameSchema, InvoiceSchema, NestedSchema, DeepBadSchema} \cup
    UNION {TreesOfSize(n) : n \in 1..MaxNodes}

\* the output_schema arguments of call_gemini_api
OutputSchemas ==
    { None, Some(EmptyDict), Some(NameSchema),
      Some(Dict(Some(str_Currency), None, None, None, None)),
      Some(Dict(Some(str_Array), None, None,
                Some(Dict(Some(str_integer), None, None, None, None)), None)),
      Some(Dict(None, None,
                Some(<<<<"a", Dict(Some(str_STRING), None, None, None, None)>>>>),
                Some(Dict(Some(str_null), None, None, None, None)), None)) }

KeyArgs == {None, Some(""), Some("explicit-key")}
EnvValues == {None, Some(""), Some("env-key")}

\* message_history entries: dictionaries read with .get("role") and .get("text")
Msg(role, text) == [role |-> role, text |-> text]
Messages ==
    { Msg(Some("user"), Some("Hello")), Msg(Some("model"), Some("Hi there")),
      Msg(None, Some("Hello")) }

RECURSIVE SeqsUpTo(_, _)
SeqsUpTo(S, n) ==
    IF n = 0 THEN {<<>>}
    ELSE SeqsUpTo(S, n - 1) \cup
         {Append(q, x) : q \in {r \in SeqsUpTo(S, n - 1) : Len(r) = n - 1}, x \in S}

Histories == {None} \cup {Some(h) : h \in SeqsUpTo(Messages, MaxHistory)}
UserMessages == {"My name is Alice", "Hello"}

\* the texts the service may reply with
ReplyTexts ==
    { <<"{", "\"", "n", "a", "m", "e", "\"", ":", "\"", "A", "l", "i", "c", "e", "\"", "}">>,
      <<"H", "i", " ", "t", "h", "e", "r", "e">>,
      <<>>,
      <<"[", "1", "2", ",", " ", "t", "r", "u", "e", "]">>,
      <<"{", "\"", "a", "\"", ":", "1">>,
      <<"{", "}", " ", "x">> }

\* the failures generate_content may raise
ApiErrors ==
    { [type |-> "ClientError", msg |-> <<"401 UNAUTHENTICATED", <<>>>>],
      [type |-> "ConnectError", msg |-> <<"network unreachable", <<>>>>] }

ApiReplies ==
    {[kind |-> "text", text |-> Some(t), exc |-> None] : t \in ReplyTexts} \cup
    {[kind |-> "error", text |-> None, exc |-> Some(e)] : e \in ApiErrors}

\* the defaults of the remaining parameters
system_prompt == "You are an invoice processor."
model_name == "gemini-2.5-flash"
temperature == 0

----------------------------------------------------------------------------
(* call_gemini_api *)

Pending == [kind |-> "pending", value |-> None, exc |-> None]
Return(v) == [kind |-> "return", value |-> Some(v), exc |-> None]
Raise(e) == [kind |-> "raise", value |-> None, exc |-> Some(e)]

MissingKeyError ==
    [type |-> "ValueError",
     msg |-> <<"A Gemini API key must be provided either as the 'api_key' parameter or as the 'GEMINI_API_KEY' environment variable.", <<>>>>]

\* key_to_use = api_key; if key_to_use is None: key_to_use = os.environ.get(...)
resolve_key(explicit, env) == IF IsNone(explicit) THEN env ELSE explicit

\* a test for the empty string alone: key_to_use == ""
KeyMissing_empty_string_only(k) == IsSome(k) /\ Val(k) = ""

\* `not key_to_use`: None or the empty string
KeyMissing(k) == IsNone(k) \/ Val(k) = ""

\* types.Content(role=, parts=[types.Part.from_text(text=)])
Content(role, text) == [role |-> role, parts |-> <<[text |-> text]>>]

\* history entries without a role left out of the contents
build_contents_skipping_no_role(history, message) ==
    LET kept == SelectSeq(IF IsNone(history) THEN <<>> ELSE Val(history),
                          LAMBDA m : IsSome(m.role))
        turns == [i \in 1..Len(kept) |-> Content(kept[i].role, kept[i].text)]
    IN  Append(turns, Content(Some("user"), Some(message)))

\* the contents list: one turn per history entry, then the new user turn
build_contents(history, message) ==
    LET turns == IF IsNone(history) \/ Val(history) = <<>> THEN <<>>
                 ELSE [i \in 1..Len(Val(history)) |->
                          Content(Val(history)[i].role, Val(history)[i].text)]
    IN  Append(turns, Content(Some("user"), Some(message)))

\* `if output_schema:` : not None and not the empty dictionary
SchemaGiven(schema) == IsSome(schema) /\ DictTruthy(Val(schema))

GenerateContentConfig(mime, schema) ==
    [temperature |-> temperature, response_mime_type |-> mime,
     response_schema |-> schema, system_instruction |-> <<[text |-> system_prompt]>>]

\* the diagnostic line of the except clause
LogLine(e) == [text |-> "An error occurred during the Gemini API call: ", e |-> e.msg]

ResolveKey ==
    /\ pc = "resolve_key"
    /\ key_to_use' = resolve_key(api_key, environ)
    /\ IF KeyMissing(key_to_use')
       THEN pc' = "done" /\ outcome' = Raise(MissingKeyError)
       ELSE pc' = "init_client" /\ UNCHANGED outcome
    /\ UNCHANGED <<args, client, contents, response_schema, response_mime_type,
                   response_text, caught, world, translator>>

InitClient ==
    /\ pc = "init_client"
    /\ client' = Some([api_key |-> key_to_use])
    /\ pc' = "build_contents"
    /\ UNCHANGED <<args, key_to_use, contents, response_schema, response_mime_type,
                   response_text, caught, world, outcome, translator>>

BuildContents ==
    /\ pc = "build_contents"
    /\ contents' = build_contents(message_history, user_message)
    /\ pc' = "build_config"
    /\ UNCHANGED <<args, key_to_use, client, response_schema, response_mime_type,
                   response_text, caught, world, outcome, translator>>

BuildConfig ==
    /\ pc = "build_config"
    /\ IF SchemaGiven(output_schema)
       THEN LET r == _build_client_api_schema(Val(output_schema))
            IN  IF r.ok
                THEN /\ response_schema' = r.schema
                     /\ response_mime_type' = "application/json"
                     /\ pc' = "call_api"
                     /\ UNCHANGED outcome
                ELSE /\ outcome' = Raise(Val(r.exc))
                     /\ pc' = "done"
                     /\ UNCHANGED <<response_schema, response_mime_type>>
       ELSE /\ pc' = "call_api"
            /\ UNCHANGED <<response_schema, response_mime_type, outcome>>
    /\ UNCHANGED <<args, key_to_use, client, contents, response_text, caught,
                   world, translator>>

CallApi ==
    /\ pc = "call_api"
    /\ \E reply \in ApiReplies :
          /\ api_reply' = Some(reply)
          /\ calls' = Append(calls,
                             [client |-> Val(client),
                              model |-> <<"models/", model_name>>,
                              contents |-> contents,
                              config |-> GenerateContentConfig(response_mime_type,
                                                               response_schema)])
          /\ IF reply.kind = "text"
             THEN /\ response_text' = reply.text
                  /\ pc' = "read_response"
                  /\ UNCHANGED caught
             ELSE /\ caught' = reply.exc
                  /\ pc' = "except"
                  /\ UNCHANGED response_text
    /\ UNCHANGED <<args, key_to_use, client, contents, response_schema,
                   response_mime_type, log, outcome, translator>>

\* the second mode test written as `if output_schema is not None:`
ReadResponse_testing_is_not_None ==
    /\ pc = "read_response"
    /\ IF IsSome(output_schema)
       THEN LET r == json_loads(Val(response_text))
            IN  IF r.ok
                THEN outcome' = Return(Val(r.value)) /\ pc' = "done" /\ UNCHANGED caught
                ELSE caught' = r.exc /\ pc' = "except" /\ UNCHANGED outcome
       ELSE /\ outcome' = Return(JObj(<<<<<<"t", "e", "x", "t">>,
                                         JStr(Val(response_text))>>>>))
            /\ pc' = "done"
            /\ UNCHANGED caught
    /\ UNCHANGED <<args, key_to_use, client, contents, response_schema,
                   response_mime_type, response_text, world, translator>>

ReadResponse ==
    /\ pc = "read_response"
    /\ IF SchemaGiven(output_schema)
       THEN LET r == json_loads(Val(response_text))
            IN  IF r.ok
                THEN outcome' = Return(Val(r.value)) /\ pc' = "done" /\ UNCHANGED caught
                ELSE caught' = r.exc /\ pc' = "except" /\ UNCHANGED outcome
       ELSE /\ outcome' = Return(JObj(<<<<<<"t", "e", "x", "t">>,
                                         JStr(Val(response_text))>>>>))
            /\ pc' = "done"
            /\ UNCHANGED caught
    /\ UNCHANGED <<args, key_to_use, client, contents, response_schema,
                   response_mime_type, response_text, world, translator>>

\* an except clause that tries the call once more before giving up
HandleException_retrying_once ==
    /\ pc = "except"
    /\ log' = Append(log, LogLine(Val(caught)))
    /\ IF Len(calls) < 2
       THEN pc' = "call_api" /\ UNCHANGED outcome
       ELSE pc' = "done" /\ outcome' = Raise(Val(caught))
    /\ UNCHANGED <<args, locals, calls, api_reply, translator>>

\* an except clause that raises a new error in place of the caught one
HandleException_wrapping ==
    /\ pc = "except"
    /\ log' = Append(log, LogLine(Val(caught)))
    /\ outcome' = Raise([type |-> "RuntimeError", msg |-> Val(caught).msg])
    /\ pc' = "done"
    /\ UNCHANGED <<args, locals, calls, api_reply, translator>>

HandleException ==
    /\ pc = "except"
    /\ log' = Append(log, LogLine(Val(caught)))
    /\ outcome' = Raise(Val(caught))
    /\ pc' = "done"
    /\ UNCHANGED <<args, locals, calls, api_reply, translator>>

Init ==
    /\ api_key \in KeyArgs
    /\ environ \in EnvValues
    /\ message_history \in Histories
    /\ user_message \in UserMessages
    /\ output_schema \in OutputSchemas
    /\ pc = "resolve_key"
    /\ key_to_use = None
    /\ client = None
    /\ contents = <<>>
    /\ response_schema = None
    /\ response_mime_type = "text/plain"
    /\ response_text = None
    /\ caught = None
    /\ calls = <<>>
    /\ api_reply = None
    /\ log = <<>>
    /\ outcome = Pending
    /\ schema_dict = EmptyDict
    /\ build_result = None

Next ==
    \/ ResolveKey
    \/ InitClient
    \/ BuildContents
    \/ BuildConfig
    \/ CallApi
    \/ ReadResponse
    \/ HandleException

Spec == Init /\ [][Next]_vars

----------------------------------------------------------------------------
(* _build_client_api_schema called on its own *)

BuildReturns ==
    /\ build_result = None
    /\ LET r == _build_client_api_schema(schema_dict)
       IN  r.ok /\ build_result' = Some(r)
    /\ UNCHANGED <<args, pc, locals, world, outcome, schema_dict>>

BuildRaises ==
    /\ build_result = None
    /\ LET r == _build_client_api_schema(schema_dict)
       IN  ~r.ok /\ build_result' = Some(r)
    /\ UNCHANGED <<args, pc, locals, world, outcome, schema_dict>>

SchemaInit ==
    /\ schema_dict \in SchemaDicts
    /\ build_result = None
    /\ api_key = None
    /\ environ = None
    /\ message_history = None
    /\ user_message = "Hello"
    /\ output_schema = None
    /\ pc = "idle"
    /\ key_to_use = None
    /\ client = None
    /\ contents = <<>>
    /\ response_schema = None
    /\ response_mime_type = "text/plain"
    /\ response_text = None
    /\ caught = None
    /\ calls = <<>>
    /\ api_reply = None
    /\ log = <<>>
    /\ outcome = Pending

SchemaNext == BuildReturns \/ BuildRaises

SchemaSpec == SchemaInit /\ [][SchemaNext]_vars

----------------------------------------------------------------------------
(* What the properties below are stated in: the recognized type names, the *)
(* nodes of a schema tree in depth-first order, and the expected shape of  *)
(* a translation.                                                          *)

RecognizedNames ==
    {str_string, str_number, str_integer, str_boolean, str_array, str_object}

ExpectedKind(name) ==
    CASE name = str_string -> "Type.STRING"
      [] name = str_number -> "Type.NUMBER"
      [] name = str_integer -> "Type.INTEGER"
      [] name = str_boolean -> "Type.BOOLEAN"
      [] name = str_array -> "Type.ARRAY"
      [] name = str_object -> "Type.OBJECT"

\* the type string of a node, an absent type counting as "object"
TypeName(d) == IF IsSome(d.type) THEN Val(d.type) ELSE str_object

NodeRecognized(d) == lower(TypeName(d)) \in RecognizedNames

PropertiesOf(d) == IF IsSome(d.properties) THEN Val(d.properties) ELSE <<>>

RECURSIVE Preorder(_)
RECURSIVE PreorderOfList(_)

\* a node, then its properties in declared order, then its items
Preorder(d) ==
    <<d>> \o PreorderOfList(PropertiesOf(d)) \o
    (IF IsSome(d.items) THEN Preorder(Val(d.items)) ELSE <<>>)

PreorderOfList(kvs) ==
    IF kvs = <<>> THEN <<>> ELSE Preorder(Head(kvs)[2]) \o PreorderOfList(Tail(kvs))

UnrecognizedAt(d) == {i \in 1..Len(Preorder(d)) : ~NodeRecognized(Preorder(d)[i])}

AllRecognized(d) == UnrecognizedAt(d) = {}

FirstUnrecognized(d) ==
    CHOOSE i \in UnrecognizedAt(d) : \A j \in UnrecognizedAt(d) : i <= j

RECURSIVE SameShape(_, _)

\* S has the shape of d: the mapped kind, description and required copied,
\* the same property names in the same order, items exactly where d has one
SameShape(d, S) ==
    /\ S.type = ExpectedKind(lower(TypeName(d)))
    /\ S.description = d.description
    /\ S.required = d.required
    /\ IF PropertiesOf(d) = <<>>
       THEN S.properties = None
       ELSE /\ IsSome(S.properties)
            /\ Len(Val(S.properties)) = Len(PropertiesOf(d))
            /\ \A i \in 1..Len(PropertiesOf(d)) :
                  /\ Val(S.properties)[i][1] = PropertiesOf(d)[i][1]
                  /\ SameShape(PropertiesOf(d)[i][2], Val(S.properties)[i][2])
    /\ IF IsNone(d.items)
       THEN S.items = None
       ELSE IsSome(S.items) /\ SameShape(Val(d.items), Val(S.items))

IsSchemaError(o) ==
    /\ o.kind = "raise"
    /\ Val(o.exc).type = "ValueError"
    /\ Val(o.exc).msg[1] = "Unsupported schema type: "

NonEmptyKey(k) == IsSome(k) /\ Val(k) # ""

HistoryOf(h) == IF IsNone(h) THEN <<>> ELSE Val(h)

BadSchemaGiven == IsSome(output_schema) /\ ~AllRecognized(Val(output_schema))

----------------------------------------------------------------------------
(* Properties of call_gemini_api, checked under Spec *)

\* C1: with no api_key argument and GEMINI_API_KEY unset, the invocation
\* never issues generate_content and ends by raising the missing-key
\* ValueError, whatever the other arguments are.
C1_NoKeyFailsBeforeAnyCall ==
    (IsNone(api_key) /\ IsNone(environ)) =>
        /\ calls = <<>>
        /\ pc \in {"resolve_key", "done"}
        /\ outcome.kind # "return"
        /\ pc = "done" => outcome = Raise(MissingKeyError)

C1_Witness ==
    /\ IsNone(api_key) /\ IsNone(environ)
    /\ pc = "done"
    /\ outcome = Raise(MissingKeyError)
    /\ BadSchemaGiven
    /\ Len(HistoryOf(message_history)) = MaxHistory

\* C2: with a usable key and an output schema holding a node (the root or a
\* descendant) whose type is none of the six recognized names, the
\* invocation ends with the "Unsupported schema type" ValueError, having
\* issued no generate_content call, attached no schema and returned nothing.
C2_BadSchemaFailsBeforeAnyCall ==
    BadSchemaGiven =>
        /\ calls = <<>>
        /\ response_schema = None
        /\ outcome.kind # "return"
        /\ pc \notin {"call_api", "read_response", "except"}
        /\ (pc = "done" /\ NonEmptyKey(key_to_use)) =>
              /\ IsSchemaError(outcome)
              /\ log = <<>>

C2_Witness ==
    /\ pc = "done"
    /\ NonEmptyKey(key_to_use)
    /\ BadSchemaGiven
    /\ NodeRecognized(Val(output_schema))
    /\ IsSchemaError(outcome)

StepRank(p) ==
    CASE p = "resolve_key" -> 1 [] p = "init_client" -> 2
      [] p = "build_contents" -> 3 [] p = "build_config" -> 4
      [] p = "call_api" -> 5 [] p = "read_response" -> 6
      [] p = "except" -> 7 [] p = "done" -> 8 [] OTHER -> 0

\* the invocation got past credential resolution and schema translation
PassedSetup == ~(outcome.kind = "raise" /\ Val(outcome.exc).type = "ValueError")

\* C3: the steps are taken in the order resolve, assemble, decide mode, call,
\* parse, return, none of them twice; generate_content has been issued
\* exactly once as soon as the call step is passed and never again, however
\* the call ends (a text, a failure, a text that is no JSON).
C3_ExactlyOneCallInOrder ==
    /\ [][StepRank(pc') > StepRank(pc) /\ Len(calls') <= 1]_vars
    /\ [](/\ StepRank(pc) <= 5 => calls = <<>>
          /\ StepRank(pc) \in {6, 7} => Len(calls) = 1
          /\ (pc = "done" /\ PassedSetup) => Len(calls) = 1)

C3_Witness ==
    /\ pc = "done"
    /\ Len(calls) = 1
    /\ outcome = Raise(JSONDecodeError)

\* C4: when generate_content raises, the invocation logs exactly one line,
\* which shows that failure, and raises that same failure to its caller; it
\* returns no value.
C4_FailureLoggedAndReraised ==
    (IsSome(api_reply) /\ Val(api_reply).kind = "error") =>
        /\ outcome.kind # "return"
        /\ Len(calls) = 1
        /\ pc = "done" =>
              /\ outcome = Raise(Val(Val(api_reply).exc))
              /\ Len(log) = 1
              /\ log[1].e = Val(Val(api_reply).exc).msg

C4_Witness ==
    /\ pc = "done"
    /\ IsSome(api_reply)
    /\ Val(api_reply).kind = "error"
    /\ Len(log) = 1

\* C5: every request carries "application/json" with the translated schema
\* when output_schema is a dictionary (anything but None), and "text/plain"
\* with no schema when output_schema is None.
C5_ModeFollowsSchemaPresence ==
    Len(calls) >= 1 =>
        IF IsSome(output_schema)
        THEN /\ calls[1].config.response_mime_type = "application/json"
             /\ IsSome(calls[1].config.response_schema)
        ELSE /\ calls[1].config.response_mime_type = "text/plain"
             /\ IsNone(calls[1].config.response_schema)

\* C6: the contents sent to generate_content are the turns of the history,
\* one per entry with its role and text, in the original order, followed by
\* one turn of role "user" holding the new message.
C6_ContentsAreHistoryThenUserTurn ==
    Len(calls) >= 1 =>
        LET sent == calls[1].contents
            h == HistoryOf(message_history)
        IN  /\ Len(sent) = Len(h) + 1
            /\ \A i \in 1..Len(h) :
                  /\ sent[i].role = h[i].role
                  /\ sent[i].parts = <<[text |-> h[i].text]>>
            /\ sent[Len(sent)].role = Some("user")
            /\ sent[Len(sent)].parts = <<[text |-> Some(user_message)]>>

C6_Witness ==
    /\ Len(calls) = 1
    /\ Len(HistoryOf(message_history)) = MaxHistory
    /\ HistoryOf(message_history)[1] = Msg(None, Some("Hello"))
    /\ HistoryOf(message_history)[2] = Msg(None, Some("Hello"))
    /\ user_message = "Hello"

\* C7: when generate_content returned a text, the result follows the mode of
\* the request that was sent: in JSON mode the result is the text parsed as
\* JSON, or the parse error raised with no second call; in plain-text mode
\* the result is the object {"text": <the text>}.
C7_ResultMatchesRequestedMode ==
    (pc = "done" /\ IsSome(api_reply) /\ Val(api_reply).kind = "text") =>
        LET text == Val(Val(api_reply).text)
            cfg == calls[1].config
        IN  IF cfg.response_mime_type = "application/json"
            THEN /\ IsSome(cfg.response_schema)
                 /\ Len(calls) = 1
                 /\ IF json_loads(text).ok
                    THEN outcome = Return(Val(json_loads(text).value))
                    ELSE outcome = Raise(JSONDecodeError)
            ELSE /\ IsNone(cfg.response_schema)
                 /\ outcome = Return(JObj(<<<<<<"t", "e", "x", "t">>, JStr(text)>>>>))

C7_Witness ==
    /\ pc = "done"
    /\ Len(calls) = 1
    /\ output_schema = Some(NameSchema)
    /\ calls[1].config.response_mime_type = "application/json"
    /\ outcome = Return(JObj(<<<<<<"n", "a", "m", "e">>,
                                 JStr(<<"A", "l", "i", "c", "e">>)>>>>))

\* C9: credential resolution passes exactly when the api_key argument or the
\* GEMINI_API_KEY variable is a non-empty string, and raises the missing-key
\* ValueError otherwise.
C9_PassesIffSomeKeyNonEmpty ==
    pc # "resolve_key" =>
        ((pc = "done" /\ outcome = Raise(MissingKeyError))
            <=> ~(NonEmptyKey(api_key) \/ NonEmptyKey(environ)))

----------------------------------------------------------------------------
(* Properties of _build_client_api_schema, checked under SchemaSpec *)

\* C8: on a schema whose nodes all carry one of the six recognized type
\* names (in any letter case, or no type), the translator returns a Schema
\* of the same shape: the mapped kind at every node, the same property names
\* in the same order, items wherever declared, description and required
\* copied.
C8_RecognizedSchemaKeepsShape ==
    (IsSome(build_result) /\ AllRecognized(schema_dict)) =>
        /\ Val(build_result).ok
        /\ SameShape(schema_dict, Val(Val(build_result).schema))

C8_Witness ==
    /\ IsSome(build_result)
    /\ Val(build_result).ok
    /\ schema_dict = NestedSchema
    /\ Val(Val(build_result).schema).type = "Type.ARRAY"
    /\ Val(Val(Val(build_result).schema).items).type = "Type.OBJECT"
    /\ Len(Val(Val(Val(Val(build_result).schema).items).properties)) = 2

\* C10 as stated: with several unrecognized nodes, the translator stops at
\* the first of them in depth-first order, examines nothing after it, and
\* the error carries that node's type string.
C10_ErrorCarriesTypeStringOfFirst ==
    (IsSome(build_result) /\ Cardinality(UnrecognizedAt(schema_dict)) >= 2) =>
        LET r == Val(build_result)
            first == FirstUnrecognized(schema_dict)
        IN  /\ ~r.ok
            /\ r.visited = SubSeq(Preorder(schema_dict), 1, first)
            /\ Val(r.exc).type = "ValueError"
            /\ Val(r.exc).msg =
                  <<"Unsupported schema type: ", TypeName(Preorder(schema_dict)[first])>>

\* C10 as amended: with several unrecognized nodes, the translator stops at
\* the first of them in depth-first order, examines nothing after it, and
\* the error carries that node's type string converted to lower case.
C10_ErrorCarriesLoweredTypeStringOfFirst ==
    (IsSome(build_result) /\ Cardinality(UnrecognizedAt(schema_dict)) >= 2) =>
        LET r == Val(build_result)
            first == FirstUnrecognized(schema_dict)
        IN  /\ ~r.ok
            /\ r.schema = None
            /\ r.visited = SubSeq(Preorder(schema_dict), 1, first)
            /\ Val(r.exc).type = "ValueError"
            /\ Val(r.exc).msg =
                  <<"Unsupported schema type: ",
                    lower(TypeName(Preorder(schema_dict)[first]))>>

\* the translator stops at a nested property, before a later property and items
C10_Witness ==
    /\ IsSome(build_result)
    /\ ~Val(build_result).ok
    /\ schema_dict = DeepBadSchema
    /\ UnrecognizedAt(schema_dict) = {3, 4, 5}
    /\ Len(Val(build_result).visited) = 3
    /\ Val(Val(build_result).exc).msg[2] = lower(str_Currency)

====
